---- MODULE Spec2Model ----
(***************************************************************************)
(* Round-robin HTTP load balancer of src/LB35.go: the backend pool built   *)
(* from config.json, the health-check goroutine and the gin route handler  *)
(* that picks a backend with an atomic request counter.                    *)
(***************************************************************************)
EXTENDS Integers, Sequences, FiniteSets, TLC

\* ------------------------------------------------------------------ bounds
\* Longest config.Backends list where handlers run concurrently.
MaxConfig == 2
\* Requests served while backends change reachability (Spec).
MaxReqs == 1
\* Requests served concurrently while reachability stays as it is (SpecFixed).
MaxConc == 2
\* Longest config.Backends list where requests arrive one after another.
MaxSeqConfig == 3
\* Requests that arrive one after another (SpecSeq, SpecWrap).
MaxCalls == 4
\* Width of requestCounter in the model (uint64 in the source, reduced).
CursorBits == 4
\* Number of times the real reachability of some backend changes.
MaxChanges == 1
\* Requests handled concurrently by a pool whose backends are all alive.
MaxBurst == 3

RECURSIVE Pow2(_)
Pow2(n) == IF n = 0 THEN 1 ELSE 2 * Pow2(n - 1)

\* requestCounter is a uint64: arithmetic is modulo 2^width.
Wrap == Pow2(CursorBits)

\* config.Backends: each entry is an address that url.Parse accepts ("ok")
\* or rejects ("bad"); an entry's host is its position in the list.
Configs(maxLen) == UNION {[1..n -> {"ok", "bad"}] : n \in 0..maxLen}

VARIABLES
    config,          \* config.Backends
    nodes,           \* nodes []*Backend: the hosts of the admitted entries
    alive,           \* node.Alive, by 0-based index into nodes
    up,              \* what isAlive(node.URL) would return now, by index
    changes,         \* reachability changes so far
    requestCounter,  \* var requestCounter uint64
    monPc,           \* health-check goroutine: "probe" | "write" | "sleep"
    monIdx,          \* position of the range loop over nodes
    monAlive,        \* local alive := isAlive(node.URL)
    healthLog,       \* the [健康检查] lines printed, in order
    req              \* per request: the handler's locals, the lines it
                     \* printed and its response

vars == <<config, nodes, alive, up, changes, requestCounter, monPc, monIdx,
          monAlive, healthLog, req>>

N == Len(nodes)
Idx == 0..(N - 1)
Host(index) == nodes[index + 1]

\* ------------------------------------------------------- pool construction
\* for _,ip := range config.Backends: an entry that fails url.Parse is
\* skipped (continue), every other one is appended to nodes.
RECURSIVE BuildNodes(_, _)
BuildNodes(cfg, k) ==
    IF k > Len(cfg) THEN <<>>
    ELSE IF cfg[k] = "bad" THEN BuildNodes(cfg, k + 1)
    ELSE <<k>> \o BuildNodes(cfg, k + 1)

\* A pool whose backends start as dead until a probe finds them.
InitialAliveFalse == FALSE

\* node := &Backend{URL: u, Alive: true, ReverseProxy: proxy}
InitialAlive == TRUE

\* A handler that has not run: targetNode = nil is -1, drawn lists the values
\* AddUint64 returned to it, logged the routing lines it printed, forwarded
\* the backends whose ReverseProxy.ServeHTTP it called.
NoReq == [pc |-> "idle", path |-> "", i |-> 0, current |-> 0, index |-> 0,
          targetNode |-> -1, drawn |-> <<>>, logged |-> <<>>,
          forwarded |-> <<>>, status |-> 0, outcome |-> ""]

InitPool(cfg) ==
    /\ config = cfg
    /\ nodes = BuildNodes(cfg, 1)
    /\ alive = [k \in 0..(Len(BuildNodes(cfg, 1)) - 1) |-> InitialAlive]

InitRest ==
    /\ changes = 0
    /\ monPc = "sleep"
    /\ monIdx = 0
    /\ monAlive = FALSE
    /\ healthLog = <<>>

\* The state when main reaches r.Run: the pool is built, the health-check
\* goroutine is started, no request has arrived.
Init ==
    /\ \E cfg \in Configs(MaxConfig) : InitPool(cfg)
    /\ up \in [Idx -> BOOLEAN]
    /\ requestCounter = 0
    /\ InitRest
    /\ req = [r \in 1..MaxReqs |-> NoReq]

\* ------------------------------------------------------------ environment
\* A backend goes down or comes back.
NetworkChange(k) ==
    /\ changes < MaxChanges
    /\ k \in Idx
    /\ up' = [up EXCEPT ![k] = ~up[k]]
    /\ changes' = changes + 1
    /\ UNCHANGED <<config, nodes, alive, requestCounter, monPc, monIdx,
                   monAlive, healthLog, req>>

\* ---------------------------------------------------- health-check goroutine
\* Where the range loop goes after the node at monIdx.
MonAdvance ==
    IF monIdx + 1 < N
    THEN monPc' = "probe" /\ monIdx' = monIdx + 1
    ELSE monPc' = "sleep" /\ monIdx' = monIdx

\* A health check that stores and prints after every probe.
StateAlwaysChanged(stored, observed) == TRUE

\* if node.Alive != alive
StateChanged(stored, observed) == stored # observed

\* A sweep that probes only the backends whose flag is true.
MonProbeSkipsDead ==
    /\ monPc = "probe"
    /\ IF ~alive[monIdx]
       THEN monAlive' = monAlive /\ MonAdvance
       ELSE /\ monAlive' = up[monIdx]
            /\ IF StateChanged(alive[monIdx], up[monIdx])
               THEN monPc' = "write" /\ monIdx' = monIdx
               ELSE MonAdvance
    /\ UNCHANGED <<config, nodes, alive, up, changes, requestCounter,
                   healthLog, req>>

\* alive := isAlive(node.URL); if node.Alive != alive { ... }
MonProbe ==
    /\ monPc = "probe"
    /\ monAlive' = up[monIdx]
    /\ IF StateChanged(alive[monIdx], up[monIdx])
       THEN monPc' = "write" /\ monIdx' = monIdx
       ELSE MonAdvance
    /\ UNCHANGED <<config, nodes, alive, up, changes, requestCounter,
                   healthLog, req>>

\* A health check that prints the transition but does not store it.
MonWriteLogOnly ==
    /\ monPc = "write"
    /\ alive' = alive
    /\ healthLog' = Append(healthLog, [host |-> Host(monIdx), alive |-> monAlive])
    /\ MonAdvance
    /\ UNCHANGED <<config, nodes, up, changes, requestCounter, monAlive,
                   req>>

\* node.Alive = alive, then the transition line for node.URL.Host.
MonWrite ==
    /\ monPc = "write"
    /\ alive' = [alive EXCEPT ![monIdx] = monAlive]
    /\ healthLog' = Append(healthLog, [host |-> Host(monIdx), alive |-> monAlive])
    /\ MonAdvance
    /\ UNCHANGED <<config, nodes, up, changes, requestCounter, monAlive,
                   req>>

\* time.Sleep(2*time.Second), then the next sweep from the first node.
MonSleep ==
    /\ monPc = "sleep"
    /\ N > 0
    /\ monPc' = "probe"
    /\ monIdx' = 0
    /\ UNCHANGED <<config, nodes, alive, up, changes, requestCounter,
                   monAlive, healthLog, req>>

\* ------------------------------------------------------------ route handler
\* atomic.AddUint64(&requestCounter, 1): the new value, modulo 2^width.
AddUint64(counter) == (counter + 1) % Wrap

\* The index taken from the counter's value before the increment.
IndexOfOld(current) == ((current + Wrap - 1) % Wrap) % N

\* index := current % uint64(len(nodes))
IndexOf(current) == current % N

\* A loop that gives up one attempt early.
LoopStopsEarly(i) == i < N - 1

\* i < len(nodes)
LoopContinues(i) == i < N

\* A handler that takes the candidate without looking at its flag.
AliveIgnored(index) == TRUE

\* Backend.Alive is a bool field; the store of line 129 and the load of line
\* 172 are plain accesses, with no sync/atomic call and no lock around them.
AliveAccess == "plain"

\* candidate.Alive: a plain load of the bool. The health-check goroutine's
\* plain store may run at the same time; the load then yields the value
\* before or after the store, which is the order of the two steps here.
AliveRead(index) == alive[index]

Paths == {"/", "/favicon.ico"}

\* A handler without the favicon branch: every path enters the selection loop.
StartNoFavicon(r) ==
    /\ req[r].pc = "idle"
    /\ \A q \in DOMAIN req : q < r => req[q].pc # "idle"
    /\ \E p \in Paths :
         req' = [req EXCEPT ![r] = [NoReq EXCEPT !.pc = "loop", !.path = p]]
    /\ UNCHANGED <<config, nodes, alive, up, changes, requestCounter, monPc,
                   monIdx, monAlive, healthLog>>

\* A request arrives; requests are numbered in order of arrival.
Start(r) ==
    /\ req[r].pc = "idle"
    /\ \A q \in DOMAIN req : q < r => req[q].pc # "idle"
    /\ \E p \in Paths :
         req' = [req EXCEPT ![r] =
                   IF p = "/favicon.ico"
                   THEN [NoReq EXCEPT !.pc = "done", !.path = p,
                                      !.status = 204, !.outcome = "favicon"]
                   ELSE [NoReq EXCEPT !.pc = "loop", !.path = p]]
    /\ UNCHANGED <<config, nodes, alive, up, changes, requestCounter, monPc,
                   monIdx, monAlive, healthLog>>

\* requestCounter++ without the atomic: the increment of a handler that runs
\* while another one holds a fresh ticket is lost.
ReserveLostUpdate(r) ==
    /\ req[r].pc = "loop"
    /\ LoopContinues(req[r].i)
    /\ requestCounter' =
         (IF \E q \in DOMAIN req : q # r /\ req[q].pc = "check"
          THEN requestCounter ELSE AddUint64(requestCounter))
    /\ req' = [req EXCEPT ![r].pc = "check",
                          ![r].current = requestCounter',
                          ![r].index = IndexOf(requestCounter'),
                          ![r].drawn = Append(@, requestCounter')]
    /\ UNCHANGED <<config, nodes, alive, up, changes, monPc, monIdx,
                   monAlive, healthLog>>

\* current := atomic.AddUint64(&requestCounter, 1); index := current % len
Reserve(r) ==
    /\ req[r].pc = "loop"
    /\ LoopContinues(req[r].i)
    /\ requestCounter' = AddUint64(requestCounter)
    /\ req' = [req EXCEPT ![r].pc = "check",
                          ![r].current = AddUint64(requestCounter),
                          ![r].index = IndexOf(AddUint64(requestCounter)),
                          ![r].drawn = Append(@, AddUint64(requestCounter))]
    /\ UNCHANGED <<config, nodes, alive, up, changes, monPc, monIdx,
                   monAlive, healthLog>>

\* A handler that prints its routing line for every candidate it looks at.
CheckLogsEveryAttempt(r) ==
    /\ req[r].pc = "check"
    /\ LET a == AliveRead(req[r].index) IN
         IF a = TRUE
         THEN req' = [req EXCEPT ![r].pc = "forward",
                                 ![r].targetNode = req[r].index,
                                 ![r].logged = Append(@,
                                     [ticket |-> req[r].current,
                                      host |-> Host(req[r].index)])]
         ELSE req' = [req EXCEPT ![r].pc = "loop", ![r].i = @ + 1,
                                 ![r].logged = Append(@,
                                     [ticket |-> req[r].current,
                                      host |-> Host(req[r].index)])]
    /\ UNCHANGED <<config, nodes, alive, up, changes, requestCounter, monPc,
                   monIdx, monAlive, healthLog>>

\* if candidate.Alive == true { targetNode = candidate; Printf; break }
Check(r) ==
    /\ req[r].pc = "check"
    /\ LET a == AliveRead(req[r].index) IN
         IF a = TRUE
         THEN req' = [req EXCEPT ![r].pc = "forward",
                                 ![r].targetNode = req[r].index,
                                 ![r].logged = Append(@,
                                     [ticket |-> req[r].current,
                                      host |-> Host(req[r].index)])]
         ELSE req' = [req EXCEPT ![r].pc = "loop", ![r].i = @ + 1]
    /\ UNCHANGED <<config, nodes, alive, up, changes, requestCounter, monPc,
                   monIdx, monAlive, healthLog>>

\* The loop ended with targetNode == nil: c.String(502, ...)
NoBackend(r) ==
    /\ req[r].pc = "loop"
    /\ ~LoopContinues(req[r].i)
    /\ req' = [req EXCEPT ![r].pc = "done", ![r].status = 502,
                          ![r].outcome = "noBackend"]
    /\ UNCHANGED <<config, nodes, alive, up, changes, requestCounter, monPc,
                   monIdx, monAlive, healthLog>>

\* A handler that goes back into the selection loop when the forward fails.
ForwardRetries(r) ==
    /\ req[r].pc = "forward"
    /\ \E ok \in (IF up[req[r].targetNode] THEN {TRUE, FALSE} ELSE {FALSE}) :
         req' = IF ok
                THEN [req EXCEPT ![r].pc = "done",
                                 ![r].forwarded = Append(@, req[r].targetNode),
                                 ![r].status = 200, ![r].outcome = "relayed"]
                ELSE [req EXCEPT ![r].pc = "loop", ![r].i = @ + 1,
                                 ![r].forwarded = Append(@, req[r].targetNode)]
    /\ UNCHANGED <<config, nodes, alive, up, changes, requestCounter, monPc,
                   monIdx, monAlive, healthLog>>

\* A handler that marks the backend dead itself when the forward fails.
ForwardMarksDead(r) ==
    /\ req[r].pc = "forward"
    /\ \E ok \in (IF up[req[r].targetNode] THEN {TRUE, FALSE} ELSE {FALSE}) :
         /\ req' = [req EXCEPT ![r].pc = "done",
                               ![r].forwarded = Append(@, req[r].targetNode),
                               ![r].status = IF ok THEN 200 ELSE 502,
                               ![r].outcome = IF ok THEN "relayed" ELSE "gatewayError"]
         /\ alive' = IF ok THEN alive
                     ELSE [alive EXCEPT ![req[r].targetNode] = FALSE]
    /\ UNCHANGED <<config, nodes, up, changes, requestCounter, monPc,
                   monIdx, monAlive, healthLog>>

\* targetNode.ReverseProxy.ServeHTTP: the upstream's response is relayed, or
\* the proxy's ErrorHandler answers 502.
Forward(r) ==
    /\ req[r].pc = "forward"
    /\ \E ok \in (IF up[req[r].targetNode] THEN {TRUE, FALSE} ELSE {FALSE}) :
         req' = [req EXCEPT ![r].pc = "done",
                            ![r].forwarded = Append(@, req[r].targetNode),
                            ![r].status = IF ok THEN 200 ELSE 502,
                            ![r].outcome = IF ok THEN "relayed" ELSE "gatewayError"]
    /\ UNCHANGED <<config, nodes, alive, up, changes, requestCounter, monPc,
                   monIdx, monAlive, healthLog>>

Next ==
    \/ \E k \in Idx : NetworkChange(k)
    \/ MonProbe
    \/ MonWrite
    \/ MonSleep
    \/ \E r \in DOMAIN req : Start(r)
    \/ \E r \in DOMAIN req : Reserve(r)
    \/ \E r \in DOMAIN req : Check(r)
    \/ \E r \in DOMAIN req : NoBackend(r)
    \/ \E r \in DOMAIN req : Forward(r)

Spec == Init /\ [][Next]_vars

\* The health-check goroutine is scheduled again and again: isAlive returns
\* within its 2 s dial timeout, the store and the Printf return, and
\* time.Sleep returns after 2 s. Nothing is assumed about requests arriving
\* or about the network.
MonitorFair == WF_vars(MonProbe) /\ WF_vars(MonWrite) /\ WF_vars(MonSleep)

SpecLive == Init /\ [][Next]_vars /\ MonitorFair

\* ------------------------------------------- reachability that stays as it is
\* The health-check lines of one sweep that found exactly the backends with
\* reach[index] = FALSE unreachable, in pool order.
RECURSIVE DownLines(_, _, _)
DownLines(ns, reach, k) ==
    IF k >= Len(ns) THEN <<>>
    ELSE (IF reach[k] THEN <<>> ELSE <<[host |-> ns[k + 1], alive |-> FALSE]>>)
         \o DownLines(ns, reach, k + 1)

\* The state the first sweep of the health-check goroutine leaves when it ran
\* before any request arrived: every flag equals the backend's reachability.
AfterFirstSweep(maxLen, counters, nReqs) ==
    /\ \E cfg \in Configs(maxLen) : config = cfg /\ nodes = BuildNodes(cfg, 1)
    /\ up \in [Idx -> BOOLEAN]
    /\ alive = up
    /\ changes = 0
    /\ monPc = "sleep"
    /\ monIdx = (IF N = 0 THEN 0 ELSE N - 1)
    /\ monAlive = (IF N = 0 THEN FALSE ELSE up[N - 1])
    /\ healthLog = DownLines(nodes, up, 0)
    /\ requestCounter \in counters
    /\ req = [r \in 1..nReqs |-> NoReq]

InitFixed == AfterFirstSweep(MaxConfig, {0}, MaxConc)

\* No backend changes reachability, so the sweeps go on and find nothing to
\* store (MonWrite is never enabled); requests are served concurrently.
NextFixed ==
    \/ MonProbe
    \/ MonSleep
    \/ \E r \in DOMAIN req : Start(r)
    \/ \E r \in DOMAIN req : Reserve(r)
    \/ \E r \in DOMAIN req : Check(r)
    \/ \E r \in DOMAIN req : NoBackend(r)
    \/ \E r \in DOMAIN req : Forward(r)

SpecFixed == InitFixed /\ [][NextFixed]_vars

\* The same with every backend reachable and its flag true, under a larger
\* number of concurrent handlers.
InitBurst ==
    /\ AfterFirstSweep(MaxConfig, {0}, MaxBurst)
    /\ \A k \in Idx : alive[k]

SpecBurst == InitBurst /\ [][NextFixed]_vars

\* Requests that arrive one after another: the next one arrives when the
\* handler of the one before has returned.
SeqTurn(r) == \A q \in DOMAIN req : q < r => req[q].pc = "done"

NextSeq ==
    \/ MonProbe
    \/ MonSleep
    \/ \E r \in DOMAIN req : SeqTurn(r) /\ Start(r)
    \/ \E r \in DOMAIN req : Reserve(r)
    \/ \E r \in DOMAIN req : Check(r)
    \/ \E r \in DOMAIN req : NoBackend(r)
    \/ \E r \in DOMAIN req : Forward(r)

InitSeq == AfterFirstSweep(MaxSeqConfig, {0}, MaxCalls)

SpecSeq == InitSeq /\ [][NextSeq]_vars

\* The same, observed after any number of earlier requests: requestCounter
\* holds any value of its width.
InitWrap == AfterFirstSweep(MaxSeqConfig, 0..(Wrap - 1), MaxCalls)

SpecWrap == InitWrap /\ [][NextSeq]_vars

\* ================================================================ properties
\* A request that went through the selection loop (not the favicon branch).
Dispatch(r) == req[r].path = "/"
\* Its loop has ended with a backend selected.
Selected(r) == Dispatch(r) /\ req[r].pc \in {"forward", "done"}
                           /\ req[r].outcome # "noBackend"
Returned(r) == Dispatch(r) /\ req[r].pc = "done"
AllAlive == \A k \in Idx : alive[k]
AllDead == \A k \in Idx : ~alive[k]
\* The number of dispatch calls among the requests 1..r.
DispatchRank(r) == Cardinality({q \in 1..r : Dispatch(q)})
\* All tickets handed out so far.
Issued == UNION {{req[r].drawn[j] : j \in DOMAIN req[r].drawn} : r \in DOMAIN req}

\* C1: with every backend alive and the requests arriving one after another
\* (SpecSeq, requestCounter starting at 0), the k-th dispatch call draws
\* exactly one ticket, the ticket k, and selects the backend at index k mod N:
\* the first ticket is 1 and successive calls advance the index by one mod N.
C1_StrictRotation ==
    (N >= 1 /\ AllAlive) =>
        \A r \in DOMAIN req :
            (Dispatch(r) /\ req[r].pc \in {"forward", "done"}) =>
                /\ req[r].drawn = <<DispatchRank(r)>>
                /\ req[r].targetNode = DispatchRank(r) % N
                /\ \A q \in DOMAIN req :
                      (Selected(q) /\ DispatchRank(q) + 1 = DispatchRank(r)) =>
                          req[r].targetNode = (req[q].targetNode + 1) % N

\* C1 witness: three backends, all alive, four calls served in turn with
\* tickets 1, 2, 3, 4 on the backends at index 1, 2, 0, 1.
C1_Witness ==
    /\ N = 3 /\ AllAlive
    /\ \A r \in 1..4 : Returned(r) /\ req[r].drawn = <<r>>
    /\ req[1].targetNode = 1 /\ req[2].targetNode = 2
    /\ req[3].targetNode = 0 /\ req[4].targetNode = 1

\* C2 (as stated): with exactly one backend alive and no flag changing, every
\* dispatch call that has returned selected that backend, after at most N
\* ticket reservations.
C2_OnlyLiveBackendSelected ==
    \A k \in Idx :
        (alive[k] /\ \A j \in Idx \ {k} : ~alive[j]) =>
            \A r \in DOMAIN req :
                Returned(r) =>
                    /\ req[r].targetNode = k
                    /\ Len(req[r].drawn) <= N

\* C3: while every backend's flag is false, a dispatch call selects nothing,
\* prints no routing line, never reaches the forwarder, always has a next step
\* of its own (it waits for nothing) and returns 502 "no backend" after
\* exactly N ticket reservations.
C3_AllDeadFailsAfterN ==
    AllDead =>
        \A r \in DOMAIN req :
            Dispatch(r) =>
                /\ req[r].pc # "forward"
                /\ req[r].targetNode = -1
                /\ req[r].logged = <<>>
                /\ Len(req[r].drawn) <= N
                /\ req[r].pc \in {"loop", "check"} =>
                      ENABLED (Reserve(r) \/ Check(r) \/ NoBackend(r))
                /\ req[r].pc = "done" =>
                      /\ Len(req[r].drawn) = N
                      /\ req[r].status = 502
                      /\ req[r].outcome = "noBackend"

\* C3 witness: two dead backends and two calls that both failed with 502
\* after two reservations each.
C3_Witness ==
    /\ N = 2 /\ AllDead
    /\ \A r \in 1..2 : Returned(r) /\ Len(req[r].drawn) = 2
                        /\ req[r].status = 502 /\ req[r].outcome = "noBackend"

\* C4: under every interleaving of concurrent handlers no ticket is handed
\* out twice, over all requests and all retries, each handler's tickets grow,
\* and the tickets handed out are exactly 1..requestCounter: every
\* reservation returns one more than all tickets before it.
C4_TicketsUnique ==
    /\ \A r1, r2 \in DOMAIN req :
          \A j1 \in DOMAIN req[r1].drawn, j2 \in DOMAIN req[r2].drawn :
              (r1 # r2 \/ j1 # j2) => req[r1].drawn[j1] # req[r2].drawn[j2]
    /\ \A r \in DOMAIN req :
          \A j \in 1..(Len(req[r].drawn) - 1) :
              req[r].drawn[j] < req[r].drawn[j + 1]
    /\ Issued = 1..requestCounter

\* C4 witness: two handlers hold fresh tickets at the same time, one of them
\* on a retry.
C4_Witness ==
    /\ req[1].pc = "check" /\ req[2].pc = "check"
    /\ Len(req[1].drawn) = 2
    /\ req[1].drawn[1] < req[2].drawn[1] /\ req[2].drawn[1] < req[1].drawn[2]

\* C5 (as stated): a dispatch call returns the "no backend" failure only when
\* no backend is alive (flags do not change in SpecFixed).
C5_ExhaustionOnlyWhenAllDead ==
    \A r \in DOMAIN req :
        (Returned(r) /\ req[r].outcome = "noBackend") => AllDead

\* One health-check line per change: two successive lines about the same
\* host never report the same state.
NoRepeatedLine ==
    \A a, b \in DOMAIN healthLog :
        (/\ a < b
         /\ healthLog[a].host = healthLog[b].host
         /\ \A c \in (a + 1)..(b - 1) : healthLog[c].host # healthLog[a].host)
        => healthLog[a].alive # healthLog[b].alive

\* C6: a probe of the backend at monIdx leads to the store and the line if
\* and only if the observed reachability differs from the stored flag; the
\* store writes the observed value, which differs from the stored one, and
\* prints one line naming that backend; nothing else changes a flag or prints
\* a line, so an observation equal to the flag leaves both as they are.
C6_TransitionIffChanged ==
    /\ []NoRepeatedLine
    /\ [][/\ (monPc = "probe" /\ <<monPc, monIdx>>' # <<monPc, monIdx>>) =>
               /\ alive' = alive
               /\ healthLog' = healthLog
               /\ (monPc' = "write") <=> (monAlive' # alive[monIdx])
               /\ (monPc' = "write") => monIdx' = monIdx
          /\ (monPc = "write" /\ monPc' # "write") =>
               /\ alive[monIdx] # monAlive
               /\ alive' = [alive EXCEPT ![monIdx] = monAlive]
               /\ healthLog' = Append(healthLog,
                       [host |-> Host(monIdx), alive |-> monAlive])
          /\ (alive' # alive \/ healthLog' # healthLog) =>
               (monPc = "write" /\ monPc' # "write")
         ]_vars

\* C6 witness: of two backends one went down and came back, which printed
\* two lines, while the sweeps over the other one printed none.
C6_Witness ==
    /\ N = 2 /\ monPc = "sleep" /\ AllAlive
    /\ Len(healthLog) = 2
    /\ healthLog[1] = [host |-> Host(1), alive |-> FALSE]
    /\ healthLog[2] = [host |-> Host(1), alive |-> TRUE]

\* The first live backend after index from, in pool order, cyclically.
NextLive(from) ==
    LET d == CHOOSE d \in 1..N :
                 /\ alive[(from + d) % N]
                 /\ \A e \in 1..(d - 1) : ~alive[(from + e) % N]
    IN (from + d) % N

\* Where the rotation stood before request r: the backend the dispatch call
\* before it selected, or index 0 (requestCounter = 0) for the first call.
RotationBefore(r) ==
    LET before == {q \in 1..(r - 1) : Dispatch(q)}
    IN IF before = {} THEN 0
       ELSE req[CHOOSE q \in before : \A p \in before : p <= q].targetNode

\* C7: with the flags fixed, at least one true and the requests arriving one
\* after another (SpecSeq), every dispatch call selects a backend, the one it
\* selects is alive, and it is the first live backend in pool order after the
\* one selected by the call before: dead backends are skipped.
C7_CycleThroughLive ==
    (N >= 1 /\ ~AllDead) =>
        \A r \in DOMAIN req :
            (Dispatch(r) /\ req[r].pc \in {"forward", "done"}) =>
                /\ req[r].outcome # "noBackend"
                /\ req[r].targetNode \in Idx
                /\ alive[req[r].targetNode]
                /\ req[r].targetNode = NextLive(RotationBefore(r))

\* C7 witness: pool [A dead, B alive, C alive], three calls in turn routed to
\* B, C, B.
C7_Witness ==
    /\ N = 3 /\ alive = (0 :> FALSE @@ 1 :> TRUE @@ 2 :> TRUE)
    /\ \A r \in 1..3 : Returned(r)
    /\ req[1].targetNode = 1 /\ req[2].targetNode = 2 /\ req[3].targetNode = 1
    /\ req[3].drawn = <<3, 4>>

\* C8 (as stated): whenever a handler runs, the pool holds at least one
\* backend.
C8_PoolNeverEmpty ==
    \A r \in DOMAIN req : req[r].pc # "idle" => N >= 1

\* C9 (as stated): no state has the health-check goroutine about to store a
\* backend's flag while a handler is about to load the same flag with a plain
\* access.
C9_NoRaceOnAlive ==
    \A r \in DOMAIN req :
        ~(/\ AliveAccess = "plain"
          /\ monPc = "write"
          /\ req[r].pc = "check"
          /\ req[r].index = monIdx)

\* C10 (as stated): for every pool size, all backends alive and the requests
\* arriving one after another, successive calls advance the selected index by
\* one modulo N whatever value requestCounter holds, also across its wrap to
\* 0; and the tickets one call draws (N of them when every backend is dead)
\* fall on pairwise different indices.
C10_WrapHarmless ==
    /\ (N >= 1 /\ AllAlive) =>
          \A q, r \in DOMAIN req :
              (Selected(q) /\ Selected(r)
                 /\ DispatchRank(q) + 1 = DispatchRank(r)) =>
                  req[r].targetNode = (req[q].targetNode + 1) % N
    /\ \A r \in DOMAIN req :
          \A j1, j2 \in DOMAIN req[r].drawn :
              j1 # j2 => req[r].drawn[j1] % N # req[r].drawn[j2] % N

\* C11: a handler calls ServeHTTP at most once, on the backend it selected;
\* from the moment it stands at that call it draws no ticket, selects no other
\* backend and prints no other routing line, and the call ends the handler:
\* with the relayed response or with the ErrorHandler's 502, never with a
\* second attempt.
C11_ForwardNeverRetried ==
    /\ [](\A r \in DOMAIN req :
            /\ Len(req[r].forwarded) <= 1
            /\ req[r].forwarded # <<>> =>
                  /\ req[r].forwarded = <<req[r].targetNode>>
                  /\ req[r].pc = "done"
                  /\ req[r].outcome \in {"relayed", "gatewayError"}
            /\ req[r].outcome = "gatewayError" => req[r].status = 502)
    /\ [][\A r \in DOMAIN req :
            (req[r].pc = "forward" \/ req[r].forwarded # <<>>) =>
                /\ req'[r].drawn = req[r].drawn
                /\ req'[r].targetNode = req[r].targetNode
                /\ req'[r].logged = req[r].logged
                /\ req'[r].pc \in {"forward", "done"}
         ]_vars

\* C11 witness: the forward to the selected backend failed with 502 while
\* another backend was alive and reachable, and the handler has returned
\* with the one ticket it drew.
C11_Witness ==
    \E r \in DOMAIN req :
        /\ N = 2 /\ req[r].pc = "done"
        /\ req[r].outcome = "gatewayError" /\ req[r].status = 502
        /\ Len(req[r].drawn) = 1
        /\ \E k \in Idx : k # req[r].targetNode /\ alive[k] /\ up[k]

\* C12: only the health-check goroutine's store changes a flag: a step of a
\* handler (arrival, reservation, flag read, selection, forward, either 502)
\* leaves every flag as it was, and no step of the goroutine or of a handler
\* changes the backend list built at startup.
C12_OnlyMonitorWritesAlive ==
    [][/\ req' # req => alive' = alive
       /\ alive' # alive => (monPc = "write" /\ monPc' # "write" /\ req' = req)
       /\ nodes' = nodes
       /\ config' = config
      ]_vars

\* C12 witness: a handler has passed a dead candidate, selected a live one
\* and had its forward fail, and the only flags that are false are those the
\* goroutine reported.
C12_Witness ==
    \E r \in DOMAIN req :
        /\ req[r].pc = "done" /\ req[r].outcome = "gatewayError"
        /\ Len(req[r].drawn) = 2
        /\ alive[req[r].targetNode]
        /\ healthLog # <<>>
        /\ \A k \in Idx : ~alive[k] <=>
               (\E n \in 1..Len(healthLog) : healthLog[n].host = Host(k))

\* C13: with the health-check goroutine scheduled fairly, a backend whose
\* reachability stays at one value from some point on has its flag at that
\* value from some point on, whether the value is reachable or unreachable
\* (a backend marked dead is probed in every sweep like any other); and the
\* goroutine starts a new sweep again and again, whatever its probes found.
C13_FlagConverges ==
    /\ \A k \in 0..(MaxConfig - 1) : \A v \in BOOLEAN :
           <>[](k \in Idx => up[k] = v) => <>[](k \in Idx => alive[k] = v)
    /\ []<>(N > 0 => (monPc = "probe" /\ monIdx = 0))

\* C13 witness: the first backend was found down by a sweep, came back, and
\* a later sweep set its flag to true again; the goroutine is starting the
\* next sweep.
C13_Witness ==
    /\ N > 0 /\ monPc = "probe" /\ monIdx = 0
    /\ up[0] /\ alive[0]
    /\ Len(healthLog) = 2
    /\ healthLog[1] = [host |-> Host(0), alive |-> FALSE]
    /\ healthLog[2] = [host |-> Host(0), alive |-> TRUE]

\* What the selection loop of one call keeps to whatever the pool holds: one
\* ticket per attempt, the tickets of a call increasing, i counting the
\* candidates read dead, at most N attempts, and no reservation after the
\* first candidate read alive.
AttemptsWithinPool(r) ==
    /\ Len(req[r].drawn) <= N
    /\ \A a, b \in 1..Len(req[r].drawn) : a < b => req[r].drawn[a] < req[r].drawn[b]
    /\ req[r].pc \in {"loop"} => Len(req[r].drawn) = req[r].i
    /\ req[r].pc \in {"check"} => Len(req[r].drawn) = req[r].i + 1
    /\ Selected(r) =>
          /\ Len(req[r].drawn) = req[r].i + 1
          /\ req[r].current = req[r].drawn[Len(req[r].drawn)]
    /\ (Returned(r) /\ req[r].outcome = "noBackend") => Len(req[r].drawn) = N

\* C14: every dispatch call that has left its selection loop has made at
\* least 1 and at most N attempts, each with a ticket of its own, and no
\* attempt after the first candidate it read alive.
C14_OneToNAttempts ==
    \A r \in DOMAIN req :
        /\ AttemptsWithinPool(r)
        /\ (Dispatch(r) /\ req[r].pc \in {"forward", "done"}) =>
               Len(req[r].drawn) >= 1

\* The same for the pools that hold a backend.
AttemptsInNonEmptyPool == N >= 1 => C14_OneToNAttempts

\* The number of tickets handed out so far whose index is k.
Reserved(k) ==
    Cardinality({r \in DOMAIN req : req[r].drawn # <<>> /\ req[r].index = k})
\* The number of requests routed to the backend at index k so far.
Routed(k) == Cardinality({r \in DOMAIN req : req[r].targetNode = k})
\* No handler stands between its reservation and its selection.
NoneInFlight == \A r \in DOMAIN req : req[r].pc # "check"

LinesOf(k) == SelectSeq(healthLog, LAMBDA l : l.host = Host(k))

\* C16: every backend of the pool starts with its flag true and keeps it
\* true until a probe of the health check has found it unreachable: a
\* backend for which no line was printed has its flag true, and the first
\* line printed for a backend reports it down.
C16_AliveUntilProbedDead ==
    \A k \in Idx :
        /\ LinesOf(k) = <<>> => alive[k]
        /\ LinesOf(k) # <<>> => ~LinesOf(k)[1].alive
        /\ ~alive[k] => LinesOf(k) # <<>>

\* C16 witness: a backend that was unreachable from the start was selected
\* by a call, and the forward failed, before the first sweep had stored
\* anything.
C16_Witness ==
    \E r \in DOMAIN req :
        /\ Selected(r) /\ req[r].outcome = "gatewayError"
        /\ ~up[req[r].targetNode] /\ alive[req[r].targetNode]
        /\ changes = 0 /\ healthLog = <<>>

\* C17: a handler prints one routing line when it selects a backend and at no
\* other time: a call that has selected has exactly one line, with the ticket
\* whose index it selected and the host of the chosen backend; a call that has
\* not selected (it is still looking, or every candidate it read was dead, or
\* it asked for the favicon) has none; and the line is there when ServeHTTP is
\* called, which adds none.
C17_OneRoutingLinePerSelection ==
    /\ [](\A r \in DOMAIN req :
            /\ Selected(r) =>
                  /\ Len(req[r].logged) = 1
                  /\ req[r].logged[1].ticket = req[r].drawn[Len(req[r].drawn)]
                  /\ req[r].logged[1].ticket % N = req[r].targetNode
                  /\ req[r].logged[1].host = Host(req[r].targetNode)
            /\ ~Selected(r) => req[r].logged = <<>>)
    /\ [][\A r \in DOMAIN req :
            /\ req'[r].logged # req[r].logged =>
                  (req[r].pc = "check" /\ req[r].targetNode = -1
                   /\ req'[r].targetNode # -1)
            /\ req'[r].forwarded # req[r].forwarded =>
                  (Len(req[r].logged) = 1 /\ req'[r].logged = req[r].logged)
         ]_vars

\* C17 witness: a call read a dead candidate with its first ticket, selected
\* a live one with its second, printed the one line for the second ticket and
\* has been forwarded.
C17_Witness ==
    \E r \in DOMAIN req :
        /\ Returned(r) /\ req[r].forwarded # <<>>
        /\ Len(req[r].drawn) = 2
        /\ req[r].logged = <<[ticket |-> req[r].drawn[2],
                              host |-> Host(req[r].targetNode)]>>

\* The health check is done with the backend at monIdx in this step: its
\* probe found nothing to store, or the store and the line are through.
MonLeaves ==
    /\ monPc \in {"probe", "write"}
    /\ monPc' # "write"
    /\ (monPc' # monPc \/ monIdx' # monIdx)

\* C18: when the health check is done with a backend, the backend's flag is
\* the result of the probe just made; a flag changes in no other step, so at
\* every moment it is the result of the last completed probe of its backend,
\* and true for a backend not yet probed; and the lines printed for a backend
\* grow by one exactly when its flag changes, so their number is the number
\* of changes of the flag: it is even exactly when the flag is true again,
\* and the last line reports the flag.
C18_FlagIsLastProbeResult ==
    /\ [](\A k \in Idx :
            /\ alive[k] <=> (Len(LinesOf(k)) % 2 = 0)
            /\ LinesOf(k) # <<>> => LinesOf(k)[Len(LinesOf(k))].alive = alive[k])
    /\ [][/\ MonLeaves => alive'[monIdx] = monAlive'
          /\ (monPc = "probe" /\ monPc' # monPc) => monAlive' = up[monIdx]
          /\ \A k \in Idx :
                /\ alive'[k] # alive[k] => (MonLeaves /\ k = monIdx)
                /\ Len(LinesOf(k)') =
                      Len(LinesOf(k)) + (IF alive'[k] # alive[k] THEN 1 ELSE 0)
         ]_vars

\* C18 witness: the health check is done with the first of two backends,
\* whose flag it has just set back to true after the backend went down and
\* came back: two changes of the flag, two lines; the second backend has
\* neither.
C18_Witness ==
    /\ N = 2 /\ monPc = "probe" /\ monIdx = 1
    /\ alive[0] /\ monAlive /\ up[0]
    /\ Len(LinesOf(0)) = 2 /\ LinesOf(1) = <<>>

Favicon(r) == req[r].path = "/favicon.ico"
\* The tickets drawn by the requests that arrived before r.
IssuedBefore(r) ==
    UNION {{req[q].drawn[j] : j \in DOMAIN req[q].drawn} : q \in 1..(r - 1)}

\* C19: a request for /favicon.ico is answered 204 in the step it arrives,
\* with no ticket drawn, no candidate looked at, no routing line and no
\* ServeHTTP; that step leaves requestCounter and every other request as they
\* were, so with requests served in turn the first ticket of a dispatch call
\* is one more than the number of tickets the dispatch calls before it drew,
\* however many favicon requests arrived in between.
C19_FaviconLeavesCursor ==
    /\ [](\A r \in DOMAIN req :
            /\ Favicon(r) =>
                  /\ req[r].pc = "done" /\ req[r].status = 204
                  /\ req[r].drawn = <<>> /\ req[r].logged = <<>>
                  /\ req[r].forwarded = <<>> /\ req[r].targetNode = -1
                  /\ req[r].i = 0
            /\ req[r].drawn # <<>> =>
                  req[r].drawn[1] = Cardinality(IssuedBefore(r)) + 1)
    /\ [][\A r \in DOMAIN req :
            (~Favicon(r) /\ Favicon(r)') =>
                /\ requestCounter' = requestCounter
                /\ alive' = alive
                /\ \A q \in DOMAIN req \ {r} : req'[q] = req[q]
         ]_vars

\* C19 witness: two backends, both alive; a dispatch call with ticket 1, then
\* a favicon request answered 204, then a dispatch call with ticket 2 on the
\* next backend.
C19_Witness ==
    /\ N = 2 /\ AllAlive /\ requestCounter = 2
    /\ Returned(1) /\ req[1].drawn = <<1>> /\ req[1].targetNode = 1
    /\ Favicon(2) /\ req[2].status = 204
    /\ Returned(3) /\ req[3].drawn = <<2>> /\ req[3].targetNode = 0

====
